---------------------------- MODULE Spec2Model ----------------------------
(***************************************************************************)
(* Model of the wp-theme-cli scaffolding scripts: the three generations of *)
(* the entry point (src/unnamed/part_000, src/bin/cli.js and the evolved   *)
(* src/unnamed/part_001) and the case transformers they share.             *)
(*                                                                         *)
(* A JavaScript string is a sequence of one-character strings.  A file's   *)
(* content is a sequence of atoms, each atom a string in that sense: a     *)
(* placeholder token is the one-element atom <<"<theme_slug>">>, any other *)
(* atom is literal text.                                                   *)
(***************************************************************************)
EXTENDS Naturals, Integers, Sequences, FiniteSets, TLC

VARIABLES
    str,        \* case transformer harness: the input string
    fn,         \* case transformer harness: the function applied last
    out,        \* case transformer harness: its result
    again,      \* case transformer harness: <<the function applied to out>>, <<>> before
    script,     \* which generation of the entry point runs
    repoName,   \* process.argv[2]
    pc,         \* position of the main async function
    field,      \* index of the prompt being asked
    answers,    \* answers collected by prompts so far
    errorMsg,   \* validation message shown by the current prompt
    disk,       \* the filesystem: the paths that exist -> content
    cloned,     \* history: the tree as the clone command left it
    pass,       \* index of the substitution pass that runs next
    thrown,     \* index of the substitution pass that threw, 0 when none did
    ran,        \* external operations performed, in order
    logs,       \* lines written to the console, in order
    exitCode    \* process exit status: <<>> while running, <<status>> once ended

caseVars == <<str, fn, out, again>>
runVars == <<script, repoName, pc, field, answers, errorMsg, disk, cloned, pass, thrown,
            ran, logs, exitCode>>
vars == <<str, fn, out, again, script, repoName, pc, field, answers, errorMsg, disk, cloned, pass,
         thrown, ran, logs, exitCode>>

(***************************************************************************)
(* Bounds                                                                  *)
(***************************************************************************)
\* longest input string given to the case transformers
MaxLen == 4

\* characters the bounded inputs are drawn from
Alphabet == {"a", "A", "_", "-", " ", "\t", ".", "1"}

(***************************************************************************)
(* Characters                                                              *)
(***************************************************************************)
Lowers == <<"a","b","c","d","e","f","g","h","i","j","k","l","m",
            "n","o","p","q","r","s","t","u","v","w","x","y","z">>
Uppers == <<"A","B","C","D","E","F","G","H","I","J","K","L","M",
            "N","O","P","Q","R","S","T","U","V","W","X","Y","Z">>
Digits == {"0","1","2","3","4","5","6","7","8","9"}

\* [a-z]
LowerClass == {Lowers[i] : i \in 1..26}
\* [A-Z]
UpperClass == {Uppers[i] : i \in 1..26}
\* [_-]
SepClass == {"_", "-"}
\* \s, as far as the characters used here go
SpaceClass == {" ", "\t", "\n"}
\* \w
WordClass == LowerClass \cup UpperClass \cup Digits \cup {"_"}

toLowerCaseChar(c) ==
    IF c \in UpperClass THEN Lowers[CHOOSE i \in 1..26 : Uppers[i] = c] ELSE c

toUpperCaseChar(c) ==
    IF c \in LowerClass THEN Uppers[CHOOSE i \in 1..26 : Lowers[i] = c] ELSE c

(***************************************************************************)
(* String.prototype methods used by the case transformers                  *)
(***************************************************************************)
RECURSIVE Flatten(_)
Flatten(ss) == IF ss = <<>> THEN <<>> ELSE Head(ss) \o Flatten(Tail(ss))

\* TRUE when position i starts a maximal run of characters of class C
StartsRun(s, i, C) == s[i] \in C /\ (i = 1 \/ s[i - 1] \notin C)

\* s.replace(/(C+)/g, pre + "$1")
PrefixRuns(s, C, pre) ==
    Flatten([i \in 1..Len(s) |->
        IF StartsRun(s, i, C) THEN <<pre, s[i]>> ELSE <<s[i]>>])

\* s.replace(/C+/g, rep)
ReplaceRuns(s, C, rep) ==
    Flatten([i \in 1..Len(s) |->
        IF s[i] \in C
        THEN (IF StartsRun(s, i, C) THEN <<rep>> ELSE <<>>)
        ELSE <<s[i]>>])

RECURSIVE TrimStart(_)
TrimStart(s) ==
    IF s # <<>> /\ Head(s) \in SpaceClass THEN TrimStart(Tail(s)) ELSE s

RECURSIVE TrimEnd(_)
TrimEnd(s) ==
    IF s # <<>> /\ s[Len(s)] \in SpaceClass
    THEN TrimEnd(SubSeq(s, 1, Len(s) - 1))
    ELSE s

\* s.trim()
Trim(s) == TrimEnd(TrimStart(s))

\* s.toLowerCase()
toLowerCase(s) == [i \in 1..Len(s) |-> toLowerCaseChar(s[i])]

(***************************************************************************)
(* Case transformers                                                       *)
(***************************************************************************)
stripCaseNoTrim(s) ==
    toLowerCase(ReplaceRuns(ReplaceRuns(PrefixRuns(s, UpperClass, " "),
                                        SepClass, " "),
                            SpaceClass, " "))

stripCaseKeepSeparators(s) ==
    toLowerCase(Trim(ReplaceRuns(PrefixRuns(s, UpperClass, " "), SpaceClass, " ")))

stripCase(s) ==
    toLowerCase(Trim(ReplaceRuns(ReplaceRuns(PrefixRuns(s, UpperClass, " "),
                                             SepClass, " "),
                                 SpaceClass, " ")))

\* s.replace(/\b\w/g, (match) => match.toUpperCase())
upperCaseWords(s) ==
    [i \in 1..Len(s) |->
        IF StartsRun(s, i, WordClass) THEN toUpperCaseChar(s[i]) ELSE s[i]]

titleCase(s) == upperCaseWords(stripCase(s))

snakeCase(s) == ReplaceRuns(stripCase(s), SpaceClass, "_")

titleSnakeCaseAllCaps(s) ==
    LET t == ReplaceRuns(stripCase(s), SpaceClass, "_")
    IN [i \in 1..Len(t) |-> toUpperCaseChar(t[i])]

titleSnakeCase(s) == ReplaceRuns(titleCase(s), SpaceClass, "_")

kebabCase(s) == ReplaceRuns(stripCase(s), SpaceClass, "-")


(***************************************************************************)
(* Literals of the scripts                                                 *)
(***************************************************************************)
Scripts == {"part_000", "cli", "part_001"}

\* "."
Dot == <<".">>
\* "my-project"
MyProject == <<"m","y","-","p","r","o","j","e","c","t">>
\* "Denman Digital"
DenmanDigital == <<"D","e","n","m","a","n"," ","D","i","g","i","t","a","l">>
\* "responsive, modern"
KeywordsDefault ==
    <<"r","e","s","p","o","n","s","i","v","e",","," ","m","o","d","e","r","n">>
\* URL and sentence literals, each kept as one symbol: no case transformer
\* and no validator ever looks inside them
DescriptionDefault == <<"Modern responsive WordPress Theme.">>
DenmanUri == <<"https://denman.digital/">>
GithubPrefix == <<"https://github.com/Denman-Digital/">>
ReadmeSuffix == <<"#readme">>

(***************************************************************************)
(* Paths: a path is a sequence of segments, a segment is a string          *)
(***************************************************************************)
\* path.join(...): "." segments are normalised away
PathJoin(segs) == SelectSeq(segs, LAMBDA g : g # Dot)

File(name) == <<name>>

paths(repo) ==
    [package                |-> PathJoin(<<repo, File("package.json")>>),
     packageSample          |-> PathJoin(<<repo, File("package-sample.json")>>),
     composer               |-> PathJoin(<<repo, File("composer.json")>>),
     composerSample         |-> PathJoin(<<repo, File("composer-sample.json")>>),
     composerIncludes       |-> PathJoin(<<repo, File("includes"), File("composer.json")>>),
     composerIncludesSample |-> PathJoin(<<repo, File("includes"), File("composer-sample.json")>>),
     styleCSS               |-> PathJoin(<<repo, File("style.css")>>)]

PhpPath(repo) == PathJoin(<<repo, File("functions.php")>>)
VendorPhpPath(repo) == PathJoin(<<repo, File("vendor"), File("lib.php")>>)
ReadmePath(repo) == PathJoin(<<repo, File("readme.md")>>)

IsPhp(p) == p # <<>> /\ p[Len(p)] \in {File("functions.php"), File("lib.php")}
InVendor(p) == \E i \in 1..(Len(p) - 1) : p[i] = File("vendor")
IsUnder(p, repo) == repo = Dot \/ (p # <<>> /\ p[1] = repo)

(***************************************************************************)
(* The template repository the clone command fetches.  Its manifests may   *)
(* or may not be there; the other files always are.                        *)
(***************************************************************************)
Tok(t) == <<t>>

TSlug == Tok("<theme_slug>")
TDisplayName == Tok("<theme_display_name>")
TDescription == Tok("<theme_description>")
TAuthorName == Tok("<theme_author_name>")
TAuthorUri == Tok("<theme_author_uri>")
TAuthorSlug == Tok("<theme_author_slug>")
TGithubUri == Tok("<theme_github_uri>")
TUri == Tok("<theme_uri>")
TTextDomain == Tok("wp-theme-starter-text-domain")
TKeywords == Tok("<theme_keywords>")
TQuotedKeywords == Tok("\"<theme_keywords>\"")
TFuncPrefix == Tok("wp_theme_starter_")
TClassPrefix == Tok("WP_Theme_Starter_")
BannerStart == Tok("<!-- start_banner")
BannerEnd == Tok("end_banner -->")
Newline == Tok("\n")

StyleTemplate ==
    <<TSlug, TDisplayName, TDescription, TAuthorName, TAuthorUri, TAuthorSlug,
      TGithubUri, TUri, TTextDomain, TKeywords, TSlug>>

ManifestTemplate(kind) ==
    <<Tok(kind), TSlug, TDescription, TAuthorName, TGithubUri, TUri,
      TTextDomain, TQuotedKeywords, TSlug>>

PhpTemplate ==
    <<TSlug, TTextDomain, TFuncPrefix, TClassPrefix, TFuncPrefix, TTextDomain>>

ReadmeTemplate ==
    <<BannerStart, Newline, Tok("logo"), Newline, BannerEnd, Tok("body")>>

ManifestKeys == {"package", "composer", "composerIncludes"}
SampleKeys == {"packageSample", "composerSample", "composerIncludesSample"}
SampleOf(k) == CASE k = "package" -> "packageSample"
                 [] k = "composer" -> "composerSample"
                 [] k = "composerIncludes" -> "composerIncludesSample"

\* the tree a successful clone leaves, with the manifests named in `present`
Template(repo, present) ==
    LET P == paths(repo)
        fixed == {P.styleCSS, PhpPath(repo), VendorPhpPath(repo), ReadmePath(repo)}
        mans == {P[k] : k \in present}
    IN [p \in fixed \cup mans |->
            IF p = P.styleCSS THEN StyleTemplate
            ELSE IF p \in {PhpPath(repo), VendorPhpPath(repo)} THEN PhpTemplate
            ELSE IF p = ReadmePath(repo) THEN ReadmeTemplate
            ELSE IF p \in {P[k] : k \in SampleKeys} THEN ManifestTemplate("sample")
            ELSE ManifestTemplate("generated")]


(***************************************************************************)
(* Prompt Collector                                                        *)
(***************************************************************************)
Fields(sc) ==
    IF sc = "part_001"
    THEN <<"slug", "displayName", "description", "authorName", "authorSlug",
           "authorUri", "githubUri", "uri", "keywords", "textDomain",
           "funcPrefix", "classPrefix">>
    ELSE <<"slug", "displayName", "description", "authorName",
           "authorUri", "githubUri", "uri", "keywords", "textDomain",
           "funcPrefix", "classPrefix">>

\* initial: (_, { slug }) => snakeCase(slug) + "_"
FuncPrefixInitial(slug) == snakeCase(slug) \o <<"_">>

\* initial: (_, { slug }) => titleSnakeCase(slug) + "_"
ClassPrefixInitial(slug) == titleSnakeCase(slug) \o <<"_">>

\* the default a prompt offers; prev is the answer to the prompt before it
Initial(name, repo, prev, ans) ==
    CASE name = "slug" -> IF repo # Dot THEN repo ELSE MyProject
      [] name = "displayName" -> titleCase(prev)
      [] name = "description" -> DescriptionDefault
      [] name = "authorName" -> DenmanDigital
      [] name = "authorSlug" -> kebabCase(prev)
      [] name = "authorUri" -> IF prev = DenmanDigital THEN DenmanUri ELSE <<>>
      [] name = "githubUri" ->
            IF ans.authorName = DenmanDigital \/ ans.authorUri = DenmanUri
            THEN GithubPrefix \o ans.slug
            ELSE <<>>
      [] name = "uri" -> IF prev # <<>> THEN prev \o ReadmeSuffix ELSE <<>>
      [] name = "keywords" -> KeywordsDefault
      [] name = "textDomain" -> ans.slug
      [] name = "funcPrefix" -> FuncPrefixInitial(ans.slug)
      [] name = "classPrefix" -> ClassPrefixInitial(ans.slug)

\* /\s/.test(value)
HasWhitespace(value) == \E i \in 1..Len(value) : value[i] \in SpaceClass

ValidateNothing(sc, name, value) == <<>>

\* validate: the message to show, <<>> when the value is accepted (true)
Validate(sc, name, value) ==
    IF sc = "part_001" /\ name = "funcPrefix" /\ HasWhitespace(value)
    THEN <<"Function prefix must not contain any spaces.">>
    ELSE IF sc = "part_001" /\ name = "classPrefix" /\ HasWhitespace(value)
    THEN <<"Class prefix must not contain any spaces.">>
    ELSE <<>>

\* what the user may type at a prompt; <<>> is Enter on the offered default
Typed(name) ==
    CASE name = "slug" -> {<<>>, <<"a", "B">>}
      [] name = "authorName" -> {<<>>, <<"J", "o">>}
      [] name = "funcPrefix" -> {<<>>, <<"f", " ", "x">>, <<"f", "\t">>, <<"f", "_">>}
      [] name = "classPrefix" -> {<<>>, <<"C", " ">>}
      [] OTHER -> {<<>>}

(***************************************************************************)
(* fs/promises: each call either succeeds or throws ENOENT.  A try block   *)
(* threads [d |-> tree, ok |-> no call has thrown yet].                    *)
(***************************************************************************)
Remove(d, p) == [q \in (DOMAIN d) \ {p} |-> d[q]]

Try(d) == [d |-> d, ok |-> TRUE]

access(r, p) ==
    IF r.ok /\ p \in DOMAIN r.d THEN r ELSE [r EXCEPT !.ok = FALSE]

rm(r, p) ==
    IF r.ok /\ p \in DOMAIN r.d
    THEN [r EXCEPT !.d = Remove(r.d, p)]
    ELSE [r EXCEPT !.ok = FALSE]

rename(r, from, to) ==
    IF r.ok /\ from \in DOMAIN r.d
    THEN [r EXCEPT !.d = [q \in ((DOMAIN r.d) \ {from}) \cup {to} |->
                             IF q = to THEN r.d[from] ELSE r.d[q]]]
    ELSE [r EXCEPT !.ok = FALSE]

\* try { access(packageSample); rm(package); rename(packageSample, package) }
PromotePackageBlock(d, P) ==
    rename(rm(access(Try(d), P.packageSample), P.package),
           P.packageSample, P.package)

\* the sample whose presence the composer block tests
ComposerGuard(P) == P.packageSample

\* try { access(...); rm(composer); rename(composerSample, composer);
\*       rm(composerIncludes); rename(composerIncludesSample, composerIncludes) }
PromoteComposerBlock(d, P) ==
    rename(rm(rename(rm(access(Try(d), ComposerGuard(P)), P.composer),
                     P.composerSample, P.composer),
              P.composerIncludes),
           P.composerIncludesSample, P.composerIncludes)


(***************************************************************************)
(* Token Substitution Engine: replace-in-file                              *)
(***************************************************************************)
\* a regular expression with the g flag: every occurrence is replaced
Regex(atom) == [kind |-> "token", atom |-> atom, global |-> TRUE, dotAll |-> FALSE]
\* a plain string: String.prototype.replace replaces the first occurrence only
Literal(atom) == [kind |-> "token", atom |-> atom, global |-> FALSE, dotAll |-> FALSE]
\* /<!-- start_banner.*end_banner -->/ with or without the s flag
Banner(dotAll) == [kind |-> "banner", atom |-> BannerStart, global |-> TRUE, dotAll |-> dotAll]

ReplaceToken(content, from, to) ==
    LET hits == {i \in 1..Len(content) : content[i] = from.atom}
    IN [i \in 1..Len(content) |->
            IF i \in hits /\ (from.global \/ \A h \in hits : i <= h)
            THEN to
            ELSE content[i]]

\* the greedy match from a banner start to the last banner end that ".*" can
\* reach: without the s flag "." stops at a line break
ReplaceBanner(content, from, to) ==
    LET n == Len(content)
        Reach(i, j) ==
            /\ i < j
            /\ content[i] = BannerStart
            /\ content[j] = BannerEnd
            /\ (from.dotAll \/ \A k \in (i + 1)..(j - 1) : content[k] # Newline)
        starts == {i \in 1..n : \E j \in 1..n : Reach(i, j)}
    IN IF starts = {} THEN content
       ELSE LET i == CHOOSE x \in starts : \A y \in starts : x <= y
                ends == {j \in 1..n : Reach(i, j)}
                j == CHOOSE x \in ends : \A y \in ends : y <= x
            IN SubSeq(content, 1, i - 1) \o <<to>> \o SubSeq(content, j + 1, n)

ReplaceOne(content, from, to) ==
    IF from.kind = "banner"
    THEN ReplaceBanner(content, from, to)
    ELSE ReplaceToken(content, from, to)

\* from[1] -> to[1], then from[2] -> to[2], ... on the running content
RECURSIVE MakeReplacements(_, _, _)
MakeReplacements(content, from, to) ==
    IF from = <<>> THEN content
    ELSE MakeReplacements(ReplaceOne(content, Head(from), Head(to)), Tail(from), Tail(to))

\* replaceInFiles({files, from, to, dry}): the tree afterwards
replaceInFiles(d, cfg) ==
    IF cfg.dry THEN d
    ELSE [p \in DOMAIN d |->
            IF p \in cfg.files THEN MakeReplacements(d[p], cfg.from, cfg.to) ELSE d[p]]

\* keywords.split(",")
RECURSIVE Split(_)
Split(s) ==
    LET commas == {i \in 1..Len(s) : s[i] = ","}
    IN IF commas = {} THEN <<s>>
       ELSE LET i == CHOOSE x \in commas : \A y \in commas : x <= y
            IN <<SubSeq(s, 1, i - 1)>> \o Split(SubSeq(s, i + 1, Len(s)))

\* parts.join(", ")
RECURSIVE Join(_)
Join(parts) ==
    IF Len(parts) = 0 THEN <<>>
    ELSE IF Len(parts) = 1 THEN parts[1]
    ELSE parts[1] \o <<",", " ">> \o Join(Tail(parts))

\* keywords.split(",").map((str) => `"${str.trim()}"`).join(", ")
QuotedKeywords(keywords) ==
    LET parts == Split(keywords)
    IN Join([i \in 1..Len(parts) |-> <<"\"">> \o Trim(parts[i]) \o <<"\"">>])

\* the generated readme heading
Heading(sc, ans) ==
    <<"# ">> \o ans.displayName \o <<"\n\n">> \o ans.description
        \o <<"\n\nBased on [Denman WP Theme Starter](https://github.com/Denman-Digital/wp-theme-starter/)">>
        \o (IF sc = "cli" THEN <<"}">> ELSE <<>>) \o <<"\n\n">>

\* glob "**/*.php" below base, ignoring "**/vendor/**/*.php" or not
PhpFiles(d, base, ignoreVendor) ==
    {p \in DOMAIN d : IsPhp(p) /\ IsUnder(p, base) /\ (ignoreVendor => ~InVendor(p))}

NPasses(sc) == IF sc = "part_000" THEN 4 ELSE 5

PassNames == <<"passA", "passB", "passC", "passD", "passE">>

\* the first generation: paths relative to the working directory, written for real
Passes000(repo, d, ans) ==
    <<[files |-> {<<File("style.css")>>, <<File("package.json")>>},
       from |-> <<Regex(TSlug), Regex(TDisplayName), Regex(TDescription),
                  Regex(TAuthorName), Regex(TAuthorUri), Regex(TGithubUri),
                  Regex(TUri), Literal(TTextDomain)>>,
       to |-> <<ans.slug, ans.displayName, ans.description, ans.authorName,
                ans.authorUri, ans.githubUri, ans.uri, ans.textDomain>>,
       dry |-> FALSE],
      [files |-> {<<File("style.css")>>},
       from |-> <<Literal(TKeywords)>>, to |-> <<ans.keywords>>, dry |-> FALSE],
      [files |-> {<<File("package.json")>>},
       from |-> <<Literal(TQuotedKeywords)>>,
       to |-> <<QuotedKeywords(ans.keywords)>>, dry |-> FALSE],
      [files |-> PhpFiles(d, Dot, FALSE),
       from |-> <<Literal(TSlug), Literal(TTextDomain), Literal(TFuncPrefix),
                  Literal(TClassPrefix)>>,
       to |-> <<ans.slug, ans.textDomain, ans.funcPrefix, ans.classPrefix>>,
       dry |-> FALSE]>>

\* bin/cli.js: paths below the clone, every pass a dry run
PassesCli(repo, d, ans) ==
    LET P == paths(repo)
    IN <<[files |-> {P.styleCSS, P.package},
          from |-> <<Regex(TSlug), Regex(TDisplayName), Regex(TDescription),
                     Regex(TAuthorName), Regex(TAuthorUri), Regex(TGithubUri),
                     Regex(TUri), Regex(TTextDomain)>>,
          to |-> <<ans.slug, ans.displayName, ans.description, ans.authorName,
                   ans.authorUri, ans.githubUri, ans.uri, ans.textDomain>>,
          dry |-> TRUE],
         [files |-> {P.styleCSS},
          from |-> <<Literal(TKeywords)>>, to |-> <<ans.keywords>>, dry |-> TRUE],
         [files |-> {P.package},
          from |-> <<Literal(TQuotedKeywords)>>,
          to |-> <<QuotedKeywords(ans.keywords)>>, dry |-> TRUE],
         [files |-> PhpFiles(d, repo, TRUE),
          from |-> <<Regex(TSlug), Regex(TTextDomain), Regex(TFuncPrefix),
                     Regex(TClassPrefix)>>,
          to |-> <<ans.slug, ans.textDomain, ans.funcPrefix, ans.classPrefix>>,
          dry |-> TRUE],
         [files |-> {ReadmePath(repo)},
          from |-> <<Banner(FALSE)>>, to |-> <<Heading("cli", ans)>>, dry |-> TRUE]>>

\* the evolved script: paths below the clone, written for real
Passes001(repo, d, ans) ==
    LET P == paths(repo)
    IN <<[files |-> {P.styleCSS, P.package, P.composer, P.composerIncludes},
          from |-> <<Regex(TSlug), Regex(TDisplayName), Regex(TDescription),
                     Regex(TAuthorName), Regex(TAuthorUri), Regex(TAuthorSlug),
                     Regex(TGithubUri), Regex(TUri), Regex(TTextDomain)>>,
          to |-> <<ans.slug, ans.displayName, ans.description, ans.authorName,
                   ans.authorUri, ans.authorSlug, ans.githubUri, ans.uri,
                   ans.textDomain>>,
          dry |-> FALSE],
         [files |-> {P.styleCSS},
          from |-> <<Literal(TKeywords)>>, to |-> <<ans.keywords>>, dry |-> FALSE],
         [files |-> {P.package, P.composer, P.composerIncludes},
          from |-> <<Literal(TQuotedKeywords)>>,
          to |-> <<QuotedKeywords(ans.keywords)>>, dry |-> FALSE],
         [files |-> PhpFiles(d, repo, TRUE),
          from |-> <<Regex(TSlug), Regex(TTextDomain), Regex(TFuncPrefix),
                     Regex(TClassPrefix)>>,
          to |-> <<ans.slug, ans.textDomain, ans.funcPrefix, ans.classPrefix>>,
          dry |-> FALSE],
         [files |-> {ReadmePath(repo)},
          from |-> <<Banner(TRUE)>>, to |-> <<Heading("part_001", ans)>>, dry |-> FALSE]>>

Passes(sc, repo, d, ans) ==
    CASE sc = "part_000" -> Passes000(repo, d, ans)
      [] sc = "cli" -> PassesCli(repo, d, ans)
      [] sc = "part_001" -> Passes001(repo, d, ans)


(***************************************************************************)
(* External processes, timers and process exit                             *)
(***************************************************************************)
\* process.exit(code): the status the parent sees is the low byte
ProcessExit(code) == <<code % 256>>

\* the script names no function toNumber: not defined, not required
toNumberDefined == FALSE

\* setTimer(duration): the executor evaluates toNumber(duration) before
\* setTimeout is called; a ReferenceError there rejects the promise
setTimer(duration) == IF toNumberDefined THEN "resolved" ELSE "rejected"

\* an unhandled rejection of the main promise ends the process with status 1
\* (Node 15 and later) or only warns and ends with 0 (Node 14)
UnhandledRejectionExit == {0, 1}

\* part_000 mixes require() with an export statement: a plain Node run stops
\* at load with a SyntaxError, a transpiled build runs
LoadOutcomes(sc) == IF sc = "part_000" THEN {TRUE, FALSE} ELSE {TRUE}

AfterCheckOutNoExit(sc, didCheckOut) ==
    IF sc = "part_000" THEN "subst" ELSE "promotePackage"

\* if (!didCheckOut) process.exit(-1); otherwise the step that follows
AfterCheckOut(sc, didCheckOut) ==
    IF ~didCheckOut THEN "exited"
    ELSE IF sc = "part_000" THEN "subst" ELSE "promotePackage"

AfterSubst(sc) == IF sc = "part_001" THEN "reset" ELSE "install"

EmptyFn == [x \in {} |-> <<>>]

\* the clone's files laid over the tree
Overlay(d, t) == [p \in (DOMAIN d) \cup (DOMAIN t) |-> IF p \in DOMAIN t THEN t[p] ELSE d[p]]

RepoArgs == {Dot, <<"w", "p">>}

Range(f) == {f[i] : i \in DOMAIN f}

(***************************************************************************)
(* The run of one script                                                   *)
(***************************************************************************)
CaseIdle == str = <<>> /\ fn = "none" /\ out = <<>> /\ again = <<>>

Init ==
    /\ CaseIdle
    /\ script \in Scripts
    /\ repoName \in RepoArgs
    /\ pc = "load"
    /\ field = 1
    /\ answers = EmptyFn
    /\ errorMsg = <<>>
    /\ disk = EmptyFn
    /\ cloned = EmptyFn
    /\ pass = 1
    /\ thrown = 0
    /\ ran = <<>>
    /\ logs = <<>>
    /\ exitCode = <<>>

Load ==
    /\ pc = "load"
    /\ \E ok \in LoadOutcomes(script) :
        IF ok
        THEN /\ pc' = "prompt"
             /\ UNCHANGED <<logs, exitCode>>
        ELSE /\ pc' = "exited"
             /\ logs' = Append(logs, "SyntaxError")
             /\ exitCode' = <<1>>
    /\ UNCHANGED <<caseVars, script, repoName, field, answers, errorMsg, disk,
                   cloned, pass, thrown, ran>>

\* one prompt of the list: the user types or accepts the default, the value
\* is validated, and the prompt is asked again while validation fails.
\* Every prompt is answered: aborting the prompt sequence is not modelled.
Prompt ==
    /\ pc = "prompt"
    /\ LET F == Fields(script)
           name == F[field]
           prev == IF field > 1 THEN answers[F[field - 1]] ELSE <<>>
       IN \E typed \in Typed(name) :
            LET value == IF typed # <<>> THEN typed
                         ELSE Initial(name, repoName, prev, answers)
                msg == Validate(script, name, value)
            IN IF msg # <<>>
               THEN /\ errorMsg' = msg
                    /\ UNCHANGED <<answers, field, pc>>
               ELSE /\ errorMsg' = <<>>
                    /\ answers' = [n \in (DOMAIN answers) \cup {name} |->
                                      IF n = name THEN value ELSE answers[n]]
                    /\ field' = field + 1
                    /\ pc' = IF field = Len(F) THEN "clone" ELSE "prompt"
    /\ UNCHANGED <<caseVars, script, repoName, disk, cloned, pass, thrown, ran,
                   logs, exitCode>>

\* runCommand(commands.gitCheckout); if (!didCheckOut) process.exit(-1)
Clone ==
    /\ pc = "clone"
    /\ ran' = Append(ran, "gitCheckout")
    /\ \E didCheckOut \in BOOLEAN :
        /\ pc' = AfterCheckOut(script, didCheckOut)
        /\ exitCode' = IF pc' = "exited" THEN ProcessExit(-1) ELSE <<>>
        /\ IF didCheckOut
           THEN /\ \E present \in SUBSET (ManifestKeys \cup SampleKeys) :
                      disk' = Overlay(disk, Template(repoName, present))
                /\ logs' = Append(logs, "Cloning the template repository")
           ELSE /\ disk' = disk
                /\ logs' = logs \o <<"Cloning the template repository",
                                     "Failed to execute gitCheckout">>
    /\ cloned' = disk'
    /\ UNCHANGED <<caseVars, script, repoName, field, answers, errorMsg, pass, thrown>>

\* bin/cli.js and the evolved script: package-sample.json -> package.json
PromotePackage ==
    /\ pc = "promotePackage"
    /\ LET P == paths(repoName)
           r == PromotePackageBlock(disk, P)
       IN /\ disk' = r.d
          /\ logs' = logs
                \o (IF access(Try(disk), P.packageSample).ok
                    THEN <<"Generating new package.json from package-sample.json">>
                    ELSE <<>>)
                \o (IF r.ok THEN <<>>
                    ELSE <<"Unable to generate new package.json from package-sample.json">>)
    /\ ran' = Append(ran, "promotePackage")
    /\ pc' = IF script = "part_001" THEN "promoteComposer" ELSE "subst"
    /\ UNCHANGED <<caseVars, script, repoName, field, answers, errorMsg, cloned,
                   pass, thrown, exitCode>>

\* the evolved script: both composer-sample.json files -> composer.json
PromoteComposer ==
    /\ pc = "promoteComposer"
    /\ LET P == paths(repoName)
           r == PromoteComposerBlock(disk, P)
       IN /\ disk' = r.d
          /\ logs' = logs
                \o (IF access(Try(disk), ComposerGuard(P)).ok
                    THEN <<"Generating new composer.json's from composer-sample.json's">>
                    ELSE <<>>)
                \o (IF r.ok THEN <<>> ELSE <<"Unable to generate new composer.json's">>)
    /\ ran' = Append(ran, "promoteComposer")
    /\ pc' = "subst"
    /\ UNCHANGED <<caseVars, script, repoName, field, answers, errorMsg, cloned,
                   pass, thrown, exitCode>>

\* one awaited replaceInFiles call of the try block: it writes and the next
\* one follows, or it throws and the catch logs the error
SubstPass ==
    /\ pc = "subst"
    /\ LET said == IF pass = 1 THEN <<"Customizing theme metadata">> ELSE <<>>
       IN \E throws \in BOOLEAN :
            IF throws
            THEN /\ thrown' = pass
                 /\ logs' = logs \o said \o <<"error">>
                 /\ pc' = AfterSubst(script)
                 /\ UNCHANGED <<disk, ran, pass>>
            ELSE /\ disk' = replaceInFiles(disk, Passes(script, repoName, disk, answers)[pass])
                 /\ ran' = Append(ran, PassNames[pass])
                 /\ logs' = logs \o said
                 /\ pass' = pass + 1
                 /\ pc' = IF pass = NPasses(script) THEN AfterSubst(script) ELSE "subst"
                 /\ UNCHANGED thrown
    /\ UNCHANGED <<caseVars, script, repoName, field, answers, errorMsg, cloned, exitCode>>

\* the evolved script: await setTimer(2000); runCommand(commands.newRepo)
Reset ==
    /\ pc = "reset"
    /\ IF setTimer(2000) = "rejected"
       THEN /\ \E status \in UnhandledRejectionExit : exitCode' = <<status>>
            /\ pc' = "exited"
            /\ logs' = logs \o <<"Creating a blank-slate Git repo", "UnhandledPromiseRejection">>
            /\ UNCHANGED ran
       ELSE /\ ran' = Append(ran, "newRepo")
            /\ \E didClearRepo \in BOOLEAN :
                 logs' = logs \o <<"Creating a blank-slate Git repo">>
                    \o (IF didClearRepo THEN <<>>
                        ELSE <<"Failed to execute newRepo",
                               "Was unable to finish removing boilerplate's development Git history">>)
            /\ pc' = "install"
            /\ UNCHANGED exitCode
    /\ UNCHANGED <<caseVars, script, repoName, field, answers, errorMsg, disk,
                   cloned, pass, thrown>>

\* runCommand(commands.installDeps); if (!didInstallDeps) process.exit(-1);
\* the evolved script awaits setTimer(2000) first
Install ==
    /\ pc = "install"
    /\ IF script = "part_001" /\ setTimer(2000) = "rejected"
       THEN /\ \E status \in UnhandledRejectionExit : exitCode' = <<status>>
            /\ pc' = "exited"
            /\ logs' = logs \o <<"Installing dependencies", "UnhandledPromiseRejection">>
            /\ UNCHANGED ran
       ELSE /\ ran' = Append(ran, "installDeps")
            /\ \E didInstallDeps \in BOOLEAN :
                 IF didInstallDeps
                 THEN /\ logs' = logs \o <<"Installing dependencies", "Congratulations!">>
                      /\ pc' = "done"
                      /\ exitCode' = <<0>>
                 ELSE /\ logs' = logs \o <<"Installing dependencies", "Failed to execute installDeps">>
                      /\ pc' = "exited"
                      /\ exitCode' = ProcessExit(-1)
    /\ UNCHANGED <<caseVars, script, repoName, field, answers, errorMsg, disk,
                   cloned, pass, thrown>>

Next ==
    \/ Load
    \/ Prompt
    \/ Clone
    \/ PromotePackage
    \/ PromoteComposer
    \/ SubstPass
    \/ Reset
    \/ Install

Spec == Init /\ [][Next]_vars


(***************************************************************************)
(* The case transformers on their own: every string of at most MaxLen      *)
(* characters of Alphabet, and the default slug, is given to each of them  *)
(***************************************************************************)
BoundedStrings == UNION {[1..n -> Alphabet] : n \in 0..MaxLen}

CaseInputs == BoundedStrings \cup {MyProject}

RunIdle ==
    /\ script = "cli"
    /\ repoName = Dot
    /\ pc = "idle"
    /\ field = 1
    /\ answers = EmptyFn
    /\ errorMsg = <<>>
    /\ disk = EmptyFn
    /\ cloned = EmptyFn
    /\ pass = 1
    /\ thrown = 0
    /\ ran = <<>>
    /\ logs = <<>>
    /\ exitCode = <<>>

CaseInit ==
    /\ str \in CaseInputs
    /\ fn = "none"
    /\ out = <<>>
    /\ again = <<>>
    /\ RunIdle

Apply(name, result) ==
    /\ fn = "none"
    /\ fn' = name
    /\ out' = result
    /\ UNCHANGED <<str, again, runVars>>

ApplyStripCase == Apply("stripCase", stripCase(str))
ApplyTitleCase == Apply("titleCase", titleCase(str))
ApplySnakeCase == Apply("snakeCase", snakeCase(str))
ApplyTitleSnakeCase == Apply("titleSnakeCase", titleSnakeCase(str))
ApplyKebabCase == Apply("kebabCase", kebabCase(str))
\* the defaults the funcPrefix and classPrefix prompts offer for slug str
OfferFuncPrefix == Apply("funcPrefixInitial", FuncPrefixInitial(str))
OfferClassPrefix == Apply("classPrefixInitial", ClassPrefixInitial(str))

CaseTransformers == {"stripCase", "titleCase", "snakeCase", "titleSnakeCase", "kebabCase"}

CaseFn(name, s) ==
    CASE name = "stripCase" -> stripCase(s)
      [] name = "titleCase" -> titleCase(s)
      [] name = "snakeCase" -> snakeCase(s)
      [] name = "titleSnakeCase" -> titleSnakeCase(s)
      [] name = "kebabCase" -> kebabCase(s)

\* the transformer applied last is applied to its own output
Reapply ==
    /\ fn \in CaseTransformers
    /\ again = <<>>
    /\ again' = <<CaseFn(fn, out)>>
    /\ UNCHANGED <<str, fn, out, runVars>>

CaseNext ==
    \/ ApplyStripCase
    \/ ApplyTitleCase
    \/ ApplySnakeCase
    \/ ApplyTitleSnakeCase
    \/ ApplyKebabCase
    \/ OfferFuncPrefix
    \/ OfferClassPrefix
    \/ Reapply

CaseSpec == CaseInit /\ [][CaseNext]_vars


(***************************************************************************)
(* Properties                                                              *)
(***************************************************************************)
Terminated == pc \in {"done", "exited"}
CloneFailed == "Failed to execute gitCheckout" \in Range(logs)
InstallFailed == "Failed to execute installDeps" \in Range(logs)
ResetFailed == "Failed to execute newRepo" \in Range(logs)
AfterCloneOps ==
    {"promotePackage", "promoteComposer", "newRepo", "installDeps"} \cup Range(PassNames)

\* C1: in every entry point, a failed clone command ends the process at once
\* with a non-zero status: no manifest promotion, no substitution pass, no
\* repo reset and no dependency install has been performed, and no file has
\* been touched.
C1_CloneFailureIsFatal ==
    CloneFailed =>
        /\ pc = "exited"
        /\ exitCode \notin {<<>>, <<0>>}
        /\ Range(ran) \cap AfterCloneOps = {}
        /\ ran[Len(ran)] = "gitCheckout"
        /\ disk = EmptyFn

C1_Witness ==
    /\ CloneFailed
    /\ script = "part_001"
    /\ pc = "exited"
    /\ exitCode = <<255>>
    /\ "classPrefix" \in DOMAIN answers

\* C2: the evolved script ends with a non-zero status exactly when the clone
\* command or the install command failed; every other run ends with status 0
\* after printing the congratulations message.
C2_ExitStatusIffCloneOrInstallFailed ==
    (script = "part_001" /\ Terminated) =>
        /\ (exitCode # <<0>>) <=> (CloneFailed \/ InstallFailed)
        /\ (exitCode = <<0>>) => logs[Len(logs)] = "Congratulations!"

\* C3: in the evolved script every run whose clone succeeded has, by the time
\* it ends, run the repo-reset command and then the dependency-install
\* command; a failed reset is only warned about and the install still ran.
C3_ResetThenInstall ==
    (script = "part_001" /\ Terminated /\ ~CloneFailed) =>
        /\ \E i, j \in 1..Len(ran) :
                i < j /\ ran[i] = "newRepo" /\ ran[j] = "installDeps"
        /\ ResetFailed =>
                "Was unable to finish removing boilerplate's development Git history"
                    \in Range(logs)


\* the eight core metadata tokens and the answer that stands for each
CoreTokens ==
    {TSlug, TDisplayName, TDescription, TAuthorName, TAuthorUri, TGithubUri,
     TUri, TTextDomain}

CoreAnswer(ans, t) ==
    CASE t = TSlug -> ans.slug
      [] t = TDisplayName -> ans.displayName
      [] t = TDescription -> ans.description
      [] t = TAuthorName -> ans.authorName
      [] t = TAuthorUri -> ans.authorUri
      [] t = TGithubUri -> ans.githubUri
      [] t = TUri -> ans.uri
      [] t = TTextDomain -> ans.textDomain

\* the four tokens of the template-language pass
PhpTokens == {TSlug, TTextDomain, TFuncPrefix, TClassPrefix}

PhpAnswer(ans, t) ==
    CASE t = TSlug -> ans.slug
      [] t = TTextDomain -> ans.textDomain
      [] t = TFuncPrefix -> ans.funcPrefix
      [] t = TClassPrefix -> ans.classPrefix

\* content is template with every token of toks replaced by its answer
RewrittenFrom(content, template, toks, Answer(_)) ==
    /\ Len(content) = Len(template)
    /\ \A i \in 1..Len(template) :
            template[i] \in toks => content[i] = Answer(template[i])

SubstitutionDone ==
    /\ pc \in {"reset", "install", "done", "exited"}
    /\ cloned # EmptyFn
    /\ thrown = 0
    /\ pass > NPasses(script)

\* C4: in every entry point, after a run in which the clone succeeded and no
\* substitution pass threw, the cloned project's style.css and package
\* manifest hold the answers in place of every core metadata token, and its
\* non-vendor .php files hold the answers in place of the four tokens of the
\* template-language pass.
C4_ProjectFilesRewritten ==
    SubstitutionDone =>
        LET P == paths(repoName)
            CA(t) == CoreAnswer(answers, t)
            PA(t) == PhpAnswer(answers, t)
        IN /\ P.styleCSS \in DOMAIN disk
           /\ RewrittenFrom(disk[P.styleCSS], StyleTemplate, CoreTokens, CA)
           /\ P.package \in DOMAIN disk =>
                RewrittenFrom(disk[P.package], ManifestTemplate("generated"),
                              CoreTokens, CA)
           /\ RewrittenFrom(disk[PhpPath(repoName)], PhpTemplate, PhpTokens, PA)

PromotionDone == pc = "subst" /\ pass = 1

\* C5: in the evolved script, whatever files the clone left, every manifest
\* pair whose sample file existed ends the promotion with the sample's content
\* at the active manifest path and no file at the sample path.
C5_EachPairPromotedOnItsOwnSample ==
    (script = "part_001" /\ PromotionDone) =>
        LET P == paths(repoName)
        IN \A k \in ManifestKeys :
            P[SampleOf(k)] \in DOMAIN cloned =>
                /\ P[k] \in DOMAIN disk
                /\ disk[P[k]] = cloned[P[SampleOf(k)]]
                /\ P[SampleOf(k)] \notin DOMAIN disk

\* the manifest pairs each script's promoter handles
PromotedKeys(sc) ==
    CASE sc = "part_001" -> ManifestKeys
      [] sc = "cli" -> {"package"}
      [] OTHER -> {}

PromotionError(k) ==
    IF k = "package"
    THEN "Unable to generate new package.json from package-sample.json"
    ELSE "Unable to generate new composer.json's"

\* C6: for every manifest pair a promoter handles, when the pair's sample file
\* is absent the active manifest stays in place with its content unchanged and
\* a recoverable error is logged; the substitution passes are started
\* afterwards.
C6_AbsentSampleLeavesManifest ==
    LET P == paths(repoName)
    IN \A k \in PromotedKeys(script) :
        (P[SampleOf(k)] \notin DOMAIN cloned /\ P[k] \in DOMAIN cloned) =>
            /\ PromotionDone =>
                /\ P[k] \in DOMAIN disk
                /\ disk[P[k]] = cloned[P[k]]
                /\ PromotionError(k) \in Range(logs)
            /\ pc \in {"reset", "install", "done"} =>
                "Customizing theme metadata" \in Range(logs)

\* C7: in the evolved script, the step in which a substitution pass throws
\* logs the error, leaves every file as the earlier passes wrote it and does
\* not end the process; the run then goes on to the repo reset and the
\* install, so a run in which a pass threw has run both by the time it ends.
C7_PassFailureKeepsGoing ==
    [][script = "part_001" =>
        /\ (thrown = 0 /\ thrown' # 0) =>
                /\ disk' = disk
                /\ logs'[Len(logs')] = "error"
                /\ pc' # "exited"
        /\ (thrown' # 0 /\ pc' \in {"done", "exited"}) =>
                /\ "newRepo" \in Range(ran')
                /\ "installDeps" \in Range(ran')]_vars

NoWhitespace(s) == \A i \in 1..Len(s) : s[i] \notin {" ", "\t", "\n"}

\* C8: in the evolved script, while a validation message is shown the prompt
\* being asked is still the function-prefix or class-prefix prompt and no
\* answer has been recorded for it; the funcPrefix and classPrefix answers
\* that are recorded, and so reach the substitution passes, hold no
\* whitespace character.
C8_PrefixesHoldNoWhitespace ==
    script = "part_001" =>
        /\ errorMsg # <<>> =>
                /\ pc = "prompt"
                /\ Fields(script)[field] \in {"funcPrefix", "classPrefix"}
                /\ Fields(script)[field] \notin DOMAIN answers
        /\ \A n \in {"funcPrefix", "classPrefix"} \cap DOMAIN answers :
                NoWhitespace(answers[n])
        /\ pc \notin {"load", "prompt"} =>
                {"funcPrefix", "classPrefix"} \subseteq DOMAIN answers

C8_Witness ==
    /\ script = "part_001"
    /\ pc = "prompt"
    /\ Fields(script)[field] = "classPrefix"
    /\ errorMsg = <<"Class prefix must not contain any spaces.">>
    /\ answers.funcPrefix = <<"f", "_">>

\* lowercase words joined by single hyphens
IsHyphenSlug(s) ==
    /\ s # <<>>
    /\ \A i \in 1..Len(s) : s[i] \in LowerClass \cup {"-"}
    /\ s[1] # "-" /\ s[Len(s)] # "-"
    /\ \A i \in 1..(Len(s) - 1) : ~(s[i] = "-" /\ s[i + 1] = "-")

\* the words joined by underscores, then one underscore
UnderscoreJoined(s) ==
    [i \in 1..Len(s) |-> IF s[i] = "-" THEN "_" ELSE s[i]] \o <<"_">>

\* the same with the first letter of each word upper-cased
UnderscoreJoinedTitle(s) ==
    [i \in 1..Len(s) |->
        IF s[i] = "-" THEN "_"
        ELSE IF i = 1 \/ s[i - 1] = "-" THEN toUpperCaseChar(s[i])
        ELSE s[i]] \o <<"_">>

\* C9: for every slug of lowercase words joined by hyphens, the default
\* offered for the function prefix is the words joined by underscores plus one
\* underscore, and the default offered for the class prefix is the same with
\* each word's first letter upper-cased; for "my-project" they are
\* "my_project_" and "My_Project_".
C9_PrefixDefaults ==
    IsHyphenSlug(str) =>
        /\ fn = "funcPrefixInitial" => out = UnderscoreJoined(str)
        /\ fn = "classPrefixInitial" => out = UnderscoreJoinedTitle(str)
        /\ (str = MyProject /\ fn = "funcPrefixInitial") =>
                out = <<"m","y","_","p","r","o","j","e","c","t","_">>
        /\ (str = MyProject /\ fn = "classPrefixInitial") =>
                out = <<"M","y","_","P","r","o","j","e","c","t","_">>

C9_Witness ==
    /\ str = MyProject
    /\ fn = "classPrefixInitial"
    /\ out = <<"M","y","_","P","r","o","j","e","c","t","_">>

\* C10: for every input string, the empty string and strings of separators
\* only included, the output of stripCase holds no uppercase letter, no
\* underscore and no hyphen, neither starts nor ends with whitespace, and
\* holds no two whitespace characters in a row.
C10_StripCaseOutputIsClean ==
    fn = "stripCase" =>
        /\ \A i \in 1..Len(out) : out[i] \notin UpperClass \cup {"_", "-"}
        /\ out # <<>> => (out[1] \notin SpaceClass /\ out[Len(out)] \notin SpaceClass)
        /\ \A i \in 1..(Len(out) - 1) :
                ~(out[i] \in SpaceClass /\ out[i + 1] \in SpaceClass)

C10_Witness ==
    /\ fn = "stripCase"
    /\ str = <<"\t", "a", "A", "_">>
    /\ out = <<"a", " ", "a">>


\* a character that is no letter, digit, underscore, hyphen or whitespace
IsPunctuation(c) == c \notin WordClass \cup SepClass \cup SpaceClass

\* a punctuation character directly followed by a lowercase letter
PunctuationBeforeLower(s) ==
    \E i \in 1..(Len(s) - 1) : IsPunctuation(s[i]) /\ s[i + 1] \in LowerClass

\* C11 as stated: each of stripCase, titleCase, snakeCase, titleSnakeCase and
\* kebabCase gives its own output back when applied to it, for every input
\* string over letters, digits, spaces, underscores, hyphens and punctuation.
C11_IdempotentOnEveryString ==
    again # <<>> => again[1] = out

\* C11 amended: stripCase, snakeCase and kebabCase give their own output back
\* for every input string; titleCase and titleSnakeCase do so for every input
\* string in which no punctuation character is directly followed by a
\* lowercase letter.
C11_IdempotentOffPunctuation ==
    again # <<>> =>
        /\ fn \in {"stripCase", "snakeCase", "kebabCase"} => again[1] = out
        /\ (fn \in {"titleCase", "titleSnakeCase"} /\ ~PunctuationBeforeLower(str)) =>
                again[1] = out

C11_Witness ==
    /\ fn = "titleSnakeCase"
    /\ str = <<"a", "A", ".", "1">>
    /\ out = <<"A", "_", "A", ".", "1">>
    /\ again = <<out>>

=============================================================================
